---- MODULE Spec2Model ----
(***************************************************************************)
(* simple_wal: a write-ahead log kept in one file.                         *)
(*                                                                         *)
(*   offset 0..8 : first_index, u64 little-endian                          *)
(*   then        : [length u64 LE][payload][crc32 u32 LE] repeated         *)
(*                                                                         *)
(* The model keeps the file byte for byte, the handles (LogFile values)    *)
(* with their in-memory first_index / len / file position, the advisory    *)
(* lock of every file, and the directory entry of the log's path.          *)
(***************************************************************************)
EXTENDS Integers, Sequences, FiniteSets, TLC

\* ------------------------------------------------------------------ bounds

\* A handle appends only while its len is below MaxLen.
MaxLen == 2
\* restart() and compact() take indices in 0..MaxIndex.
MaxIndex == 1
\* At most MaxFailures system calls fail and at most MaxCrashes processes die
\* in the middle of a call in a run.
MaxFailures == 1
MaxCrashes == 1

\* The payloads the callers write.
Payloads == { <<>>, <<7>> }

\* The LogFile values that may be alive: two processes opening the same path.
Handles == {1, 2}

\* The files (inodes) that can exist at once: the one at the log's path, the
\* unlinked one each handle may still hold, and a temporary file.
Inodes == 1 .. (Cardinality(Handles) + 2)

NoHandle == 0
NoInode == 0
\* fail_at value of a write all of whose steps succeed
NoFail == -1

\* ------------------------------------------------------------ binary codec

\* u64::to_le_bytes / u32::to_le_bytes: w bytes, least significant first.
RECURSIVE to_le_bytes(_, _)
to_le_bytes(n, w) ==
    IF w = 0 THEN <<>> ELSE <<n % 256>> \o to_le_bytes(n \div 256, w - 1)

\* Every file of the model is far shorter than Large bytes.  A u64 of Large or
\* more is kept as Large: each comparison of it with a file size or an offset
\* comes out as it does for the exact value.
Large == 16777216

\* u64::from_le_bytes
RECURSIVE from_le_bytes(_)
from_le_bytes(bytes) ==
    IF bytes = <<>> THEN 0
    ELSE LET high == from_le_bytes(Tail(bytes)) IN
         IF high >= Large \div 256 THEN Large ELSE Head(bytes) + 256 * high

\* Whether the u64 of these 8 bytes, plus 4, exceeds i64::MAX (or u64::MAX):
\* the value is 2^63 - 4 or more.
exceeds_i64(bytes) ==
    \/ bytes[8] >= 128
    \/ /\ bytes[8] = 127
       /\ \A i \in 2 .. 7 : bytes[i] = 255
       /\ bytes[1] >= 252

\* Whether the u64 of these 8 bytes, plus 4, exceeds u64::MAX: the value is
\* 2^64 - 4 or more.
wraps_u64(bytes) ==
    /\ bytes[1] >= 252
    /\ \A i \in 2 .. 8 : bytes[i] = 255

\* The n bytes of a file at 0-based offset pos.
Slice(bytes, pos, n) == SubSeq(bytes, pos + 1, pos + n)

\* ReadExt::read_u64 at offset pos (the caller has checked that 8 bytes are there).
read_u64(bytes, pos) == from_le_bytes(Slice(bytes, pos, 8))

\* ----------------------------------------------------------------- crc32
\* crc32fast::Hasher: CRC-32 (IEEE 802.3), reflected, polynomial 0xEDB88320,
\* initial value and final xor 0xFFFFFFFF.  The register is kept as 32 bits,
\* bit 1 the least significant.

Bit(n, i) == (n \div (2 ^ i)) % 2

BitsOf(bytes) ==
    <<>> \o [i \in 1 .. 8 * Len(bytes) |-> Bit(bytes[((i - 1) \div 8) + 1], (i - 1) % 8)]

ByteOf(bits, k) ==
    bits[8 * k + 1] + 2 * bits[8 * k + 2] + 4 * bits[8 * k + 3] + 8 * bits[8 * k + 4]
    + 16 * bits[8 * k + 5] + 32 * bits[8 * k + 6] + 64 * bits[8 * k + 7]
    + 128 * bits[8 * k + 8]

BytesOf(bits) == <<>> \o [k \in 1 .. (Len(bits) \div 8) |-> ByteOf(bits, k - 1)]

\* 0xEDB88320, little-endian
CrcPoly == BitsOf(<<32, 131, 184, 237>>)

CrcOnes == <<>> \o [i \in 1 .. 32 |-> 1]

\* (<<>> \o f makes TLC build the 32 bits now rather than on demand)
Xor32(a, b) == <<>> \o [i \in 1 .. 32 |-> (a[i] + b[i]) % 2]

CrcShift(r) ==
    LET s == <<>> \o [i \in 1 .. 32 |-> IF i = 32 THEN 0 ELSE r[i + 1]]
    IN  IF r[1] = 1 THEN Xor32(s, CrcPoly) ELSE s

RECURSIVE CrcShifts(_, _)
CrcShifts(r, n) == IF n = 0 THEN r ELSE CrcShifts(CrcShift(r), n - 1)

CrcByte(r, b) ==
    CrcShifts(<<>> \o [i \in 1 .. 32 |-> IF i <= 8 THEN (r[i] + Bit(b, i - 1)) % 2 ELSE r[i]], 8)

RECURSIVE CrcUpdate(_, _)
CrcUpdate(r, bytes) ==
    IF bytes = <<>> THEN r ELSE CrcUpdate(CrcByte(r, Head(bytes)), Tail(bytes))

\* hasher.update(entry); hasher.finalize().to_le_bytes()
crc32_compute(bytes) == BytesOf(Xor32(CrcUpdate(CrcOnes, bytes), CrcOnes))

\* The checksums of the payloads the callers write, computed once.
CrcTable == [p \in Payloads |-> crc32_compute(p)]

crc32(bytes) == IF bytes \in Payloads THEN CrcTable[bytes] ELSE crc32_compute(bytes)

\* ------------------------------------------------------------- file layout

\* The starting index occupies the first 8 bytes; entries follow from offset 8.
HeaderSize == 8
\* Every entry begins with its length as a u64.
LengthSize == 8
\* Every entry ends with a 4 byte crc32.
ChecksumSize == 4

Zeros(n) == <<>> \o [i \in 1 .. n |-> 0]

Min(a, b) == IF a <= b THEN a ELSE b

\* File::set_len: cut the file at n bytes, or extend it with zero bytes.
set_len(bytes, n) ==
    IF n <= Len(bytes) THEN SubSeq(bytes, 1, n) ELSE bytes \o Zeros(n - Len(bytes))

\* Write::write_all at file offset pos: overwrites what is there and extends the
\* file (a gap past the end reads as zeros).
write_at(bytes, pos, data) ==
    SubSeq(bytes, 1, Min(pos, Len(bytes)))
        \o Zeros(pos - Min(pos, Len(bytes)))
        \o data
        \o SubSeq(bytes, pos + Len(data) + 1, Len(bytes))

\* The bytes write() sends to the file for one entry: length, data, hash.
entry_bytes(entry) == to_le_bytes(Len(entry), LengthSize) \o entry \o crc32(entry)

\* The bytes of complete entry records written back to back.
RECURSIVE entries_bytes(_)
entries_bytes(es) ==
    IF es = <<>> THEN <<>> ELSE entry_bytes(Head(es)) \o entries_bytes(Tail(es))

\* The in-memory fields of a LogFile that is not alive.
NoLog == [live |-> FALSE, ino |-> NoInode, first_index |-> 0, len |-> 0, pos |-> 0]

\* ------------------------------------------------------------ LogFile::open

\* The loop of open: from offset pos (entries counted so far), count every entry
\* whose bytes are all there.  fpos is where the file position is left.  The
\* sum read_u64()? + 4 is a u64 addition: when it exceeds u64::MAX, a build with
\* overflow checks panics and a build without them goes on with the sum
\* modulo 2^64 (0..3).
RECURSIVE scan(_, _, _, _)
scan(bytes, pos, entries, overflow_checks) ==
    LET file_size == Len(bytes) IN
    IF file_size - pos > 8
    THEN LET field   == Slice(bytes, pos, 8)
             wraps   == wraps_u64(field)
             entry_data_len == IF wraps THEN field[1] - 252
                               ELSE read_u64(bytes, pos) + ChecksumSize
         IN  IF wraps /\ overflow_checks
             THEN [pos |-> pos, entries |-> entries, fpos |-> pos + 8, ret |-> "Panic"]
             ELSE IF file_size - pos - 8 < entry_data_len
             THEN [pos |-> pos, entries |-> entries, fpos |-> pos + 8, ret |-> "Ok"]
             ELSE scan(bytes, pos + 8 + entry_data_len, entries + 1, overflow_checks)
    ELSE [pos |-> pos, entries |-> entries, fpos |-> pos, ret |-> "Ok"]

\* An open that counts the complete entries and leaves the file as it found it.
open_file_keeping_tail(bytes, overflow_checks) ==
    LET s == scan(bytes, HeaderSize, 0, overflow_checks) IN
    [content     |-> IF Len(bytes) >= 8 THEN bytes ELSE Zeros(8),
     first_index |-> IF Len(bytes) >= 8 THEN read_u64(bytes, 0) ELSE 0,
     len         |-> IF Len(bytes) >= 8 THEN s.entries ELSE 0,
     pos         |-> IF Len(bytes) >= 8 THEN s.fpos ELSE 8,
     ret         |-> IF Len(bytes) >= 8 THEN s.ret ELSE "Ok"]

\* open, after the lock is taken: the file as open leaves it and the fields of
\* the LogFile it returns.  A panic in the loop leaves the file as it was.
open_file(bytes, overflow_checks) ==
    IF Len(bytes) >= 8
    THEN LET s == scan(bytes, HeaderSize, 0, overflow_checks) IN
         [content     |-> IF s.ret = "Ok" THEN set_len(bytes, s.pos) ELSE bytes,
          first_index |-> read_u64(bytes, 0),
          len         |-> s.entries,
          pos         |-> s.fpos,
          ret         |-> s.ret]
    ELSE [content     |-> set_len(write_at(bytes, 0, Zeros(8)), 8),
          first_index |-> 0,
          len         |-> 0,
          pos         |-> 8,
          ret         |-> "Ok"]

\* ----------------------------------------------------------- LogFile::write

\* A write that puts the entry where the file position is.
write_file_at_position(log, bytes, entry, fail_at, trim_ok) ==
    LET data    == entry_bytes(entry)
        ok      == fail_at = NoFail
        written == IF ok THEN data ELSE SubSeq(data, 1, fail_at)
        after   == write_at(bytes, log.pos, written)
    IN  [content |-> IF ok \/ ~trim_ok THEN after ELSE set_len(after, log.pos + 1),
         log     |-> [log EXCEPT !.len = IF ok THEN log.len + 1 ELSE log.len,
                                 !.pos = log.pos + Len(written)],
         ret     |-> IF ok THEN "Ok" ELSE "IoError"]

\* A write that counts the entry before it knows whether its bytes were written.
write_file_counting_first(log, bytes, entry, fail_at, trim_ok) ==
    LET end_pos == Len(bytes)
        data    == entry_bytes(entry)
        ok      == fail_at = NoFail
        written == IF ok THEN data ELSE SubSeq(data, 1, fail_at)
        after   == bytes \o written
    IN  [content |-> IF ok \/ ~trim_ok THEN after ELSE set_len(after, end_pos + 1),
         log     |-> [log EXCEPT !.len = log.len + 1, !.pos = end_pos + Len(written)],
         ret     |-> IF ok THEN "Ok" ELSE "IoError"]

\* write(entry) on a file holding bytes.  fail_at = NoFail: every step succeeds.
\* Otherwise one of the write_all calls fails after fail_at bytes of the entry
\* reached the file, and trim_ok says whether the set_len that follows succeeds.
write_file(log, bytes, entry, fail_at, trim_ok) ==
    LET end_pos == Len(bytes)
        data    == entry_bytes(entry)
        ok      == fail_at = NoFail
        written == IF ok THEN data ELSE SubSeq(data, 1, fail_at)
        after   == bytes \o written
    IN  [content |-> IF ok \/ ~trim_ok THEN after ELSE set_len(after, end_pos + 1),
         log     |-> [log EXCEPT !.len = IF ok THEN log.len + 1 ELSE log.len,
                                 !.pos = end_pos + Len(written)],
         ret     |-> IF ok THEN "Ok" ELSE "IoError"]

\* -------------------------------------------------- LogEntry (the cursor)

NoNext == -1

\* LogFile::first_entry
first_entry(log) ==
    IF log.len = 0
    THEN [ret |-> "OutOfBounds", pos |-> log.pos, index |-> NoNext]
    ELSE [ret |-> "Ok", pos |-> HeaderSize, index |-> log.first_index]

\* The loop of LogEntry::seek: skip n entries from offset pos.  "Panic": the
\* length plus 4 does not fit the i64 of SeekFrom::Current and unwrap panics.
RECURSIVE skip_entries(_, _, _)
skip_entries(bytes, pos, n) ==
    IF n = 0 THEN [ret |-> "Ok", pos |-> pos]
    ELSE IF pos + 8 > Len(bytes)
    THEN [ret |-> "IoError", pos |-> IF pos < Len(bytes) THEN Len(bytes) ELSE pos]
    ELSE IF exceeds_i64(Slice(bytes, pos, 8))
    THEN [ret |-> "Panic", pos |-> pos + 8]
    ELSE skip_entries(bytes, pos + 8 + read_u64(bytes, pos) + ChecksumSize, n - 1)

\* LogEntry::seek of the cursor (pos, index)
seek_entry(log, bytes, pos, index, to_index) ==
    IF to_index > log.first_index + log.len \/ to_index < index
    THEN [ret |-> "OutOfBounds", pos |-> pos, index |-> NoNext]
    ELSE LET s == skip_entries(bytes, pos, to_index - index) IN
         [ret |-> s.ret, pos |-> s.pos, index |-> IF s.ret = "Ok" THEN to_index ELSE NoNext]

\* LogFile::seek
seek(log, bytes, to_index) ==
    LET first == first_entry(log) IN
    IF first.ret = "Ok" THEN seek_entry(log, bytes, first.pos, first.index, to_index)
    ELSE first

\* A read_to_next that returns the payload without comparing the checksum.
read_to_next_unchecked(log, bytes, pos, index) ==
    LET size == Len(bytes) IN
    IF pos + 8 > size
    THEN [ret |-> "IoError", content |-> <<>>, next |-> NoNext,
          pos |-> IF pos < size THEN size ELSE pos]
    ELSE LET len  == read_u64(bytes, pos)
             from == pos + 8
         IN  IF len > 0 /\ from + len > size
             THEN [ret |-> "Hang", content |-> <<>>, next |-> NoNext, pos |-> size]
             ELSE IF from + len + 4 > size
             THEN [ret |-> "IoError", content |-> <<>>, next |-> NoNext,
                   pos |-> IF from + len < size THEN size ELSE from + len]
             ELSE [ret |-> "Ok", content |-> Slice(bytes, from, len),
                   next |-> IF log.first_index + log.len > index + 1
                            THEN index + 1 ELSE NoNext,
                   pos |-> from + len + 4]

\* LogEntry::read_to_next of the cursor (pos, index).  "Hang": the entry's length
\* exceeds the bytes left, file.read returns 0 at the end of the file and the
\* copy loop never ends.
read_to_next(log, bytes, pos, index) ==
    LET size == Len(bytes) IN
    IF pos + 8 > size
    THEN [ret |-> "IoError", content |-> <<>>, next |-> NoNext,
          pos |-> IF pos < size THEN size ELSE pos]
    ELSE LET len  == read_u64(bytes, pos)
             from == pos + 8
         IN  IF len > 0 /\ from + len > size
             THEN [ret |-> "Hang", content |-> <<>>, next |-> NoNext, pos |-> size]
             ELSE IF from + len + 4 > size
             THEN [ret |-> "IoError", content |-> <<>>, next |-> NoNext,
                   pos |-> IF from + len < size THEN size ELSE from + len]
             ELSE LET content    == Slice(bytes, from, len)
                      checksum   == Slice(bytes, from + len, 4)
                      next_index == index + 1
                  IN  IF checksum # crc32(content)
                      THEN [ret |-> "BadChecksum", content |-> content,
                            next |-> NoNext, pos |-> from + len + 4]
                      ELSE [ret |-> "Ok", content |-> content,
                            next |-> IF log.first_index + log.len > next_index
                                     THEN next_index ELSE NoNext,
                            pos |-> from + len + 4]

\* ----------------------------------------------------- LogFile::iter(..)

\* LogIterator::next called until it returns None: the payloads of the Ok
\* items, and how the sequence ended ("None", or the error of its last item).
RECURSIVE collect(_, _, _, _, _, _)
collect(log, bytes, last_index, pos, next, items) ==
    IF next = NoNext \/ next > last_index
    THEN [items |-> items, end |-> "None", pos |-> pos]
    ELSE LET r == read_to_next(log, bytes, pos, next) IN
         IF r.ret = "Ok"
         THEN collect(log, bytes, last_index, r.pos, r.next, Append(items, r.content))
         ELSE [items |-> items, end |-> r.ret, pos |-> r.pos]

\* iter(..) followed by the iteration
iter_all(log, bytes) ==
    IF log.len = 0
    THEN [items |-> <<>>, end |-> "None", pos |-> log.pos]
    ELSE LET last_index == log.first_index + log.len - 1
             start      == first_entry(log)
         IN  collect(log, bytes, last_index, start.pos, start.index, <<>>)

\* ------------------------------------------------- LogFile::iter(range)

\* std::ops::Bound<u64>
Unbounded == [kind |-> "Unbounded", x |-> 0]

Included(x) == [kind |-> "Included", x |-> x]

Excluded(x) == [kind |-> "Excluded", x |-> x]

\* LogFile::last_index, called with len > 0
last_index(log) == log.first_index + log.len - 1

\* The end bound of iter(range), resolved for a log with entries.  *x - 1 with
\* x = 0 overflows: a build with overflow checks panics there, one without
\* wraps to u64::MAX, which no last_index() exceeds.
end_bound(log, to, overflow_checks) ==
    IF to.kind = "Unbounded" THEN [ret |-> "Ok", last_index |-> last_index(log)]
    ELSE IF to.kind = "Included"
    THEN IF last_index(log) > to.x
         THEN [ret |-> "Ok", last_index |-> to.x]
         ELSE [ret |-> "OutOfBounds", last_index |-> 0]
    ELSE IF to.x = 0
    THEN [ret |-> IF overflow_checks THEN "Panic" ELSE "OutOfBounds", last_index |-> 0]
    ELSE IF last_index(log) > to.x - 1
         THEN [ret |-> "Ok", last_index |-> to.x - 1]
         ELSE [ret |-> "OutOfBounds", last_index |-> 0]

\* The start bound of iter(range): the cursor the iterator starts with.
start_bound(log, bytes, from) ==
    IF from.kind = "Unbounded"
    THEN first_entry(log)
    ELSE seek(log, bytes, IF from.kind = "Included" THEN from.x ELSE from.x + 1)

\* iter(range): the LogIterator it returns (next, last_index), or its error.
iter_range(log, bytes, from, to, overflow_checks) ==
    IF log.len = 0
    THEN [ret |-> "Ok", next |-> NoNext, last_index |-> log.first_index, pos |-> log.pos]
    ELSE LET end == end_bound(log, to, overflow_checks) IN
         IF end.ret # "Ok"
         THEN [ret |-> end.ret, next |-> NoNext, last_index |-> 0, pos |-> log.pos]
         ELSE LET start == start_bound(log, bytes, from) IN
              [ret        |-> start.ret,
               next       |-> start.index,
               last_index |-> IF start.ret = "Ok" THEN end.last_index ELSE 0,
               pos        |-> start.pos]

\* A LogIterator::next that keeps its cursor when the read fails.
next_item_keeping_cursor(log, bytes, pos, next, upto) ==
    IF next = NoNext \/ next > upto
    THEN [item |-> "None", content |-> <<>>, next |-> NoNext, pos |-> pos]
    ELSE LET r == read_to_next(log, bytes, pos, next) IN
         [item |-> r.ret, content |-> r.content,
          next |-> IF r.ret = "Ok" THEN r.next ELSE next, pos |-> r.pos]

\* LogIterator::next on an iterator (next, last_index): the item ("None",
\* "Ok" with content, or an error), and the cursor the iterator keeps.
next_item(log, bytes, pos, next, upto) ==
    IF next = NoNext \/ next > upto
    THEN [item |-> "None", content |-> <<>>, next |-> NoNext, pos |-> pos]
    ELSE LET r == read_to_next(log, bytes, pos, next) IN
         [item |-> r.ret, content |-> r.content, next |-> r.next, pos |-> r.pos]

\* --------------------------------------------------------- LogFile::compact

\* compact(new_start_index) up to the end of io::copy: the result of the seek,
\* the bytes of the temporary file, and the fields of the LogFile afterwards.
compact_file(log, bytes, new_start_index) ==
    LET at == seek(log, bytes, new_start_index) IN
    IF at.ret # "Ok"
    THEN [ret |-> at.ret, content |-> <<>>, log |-> [log EXCEPT !.pos = at.pos]]
    ELSE LET new_file == to_le_bytes(new_start_index, 8)
                             \o SubSeq(bytes, at.pos + 1, Len(bytes))
         IN  [ret     |-> "Ok",
              content |-> new_file,
              log     |-> [log EXCEPT !.len = log.len - (new_start_index - log.first_index),
                                      !.first_index = new_start_index,
                                      !.pos = Len(new_file)]]

\* The steps of compact after the seek, in order: the temporary file is created,
\* its header written, the entries copied, the file renamed over the log's
\* path, the handle swapped.  A process can die after any of them.
CompactSteps == <<"seek", "create", "header", "copy", "rename">>

\* A compaction that rewrites the file at the log's path where it is: emptied
\* when it is created, then the header, then the entries.
compact_in_place(bytes, new_file, step, copied) ==
    IF step = "seek" THEN bytes
    ELSE IF step = "create" THEN <<>>
    ELSE IF step = "header" THEN SubSeq(new_file, 1, 8)
    ELSE IF step = "copy" THEN SubSeq(new_file, 1, 8 + copied)
    ELSE new_file

\* What the log's path holds when compact has got as far as step (with copied
\* bytes of the copy done) and no further: the temporary file is another file
\* until the rename.
compact_path_at(bytes, new_file, step, copied) ==
    IF step = "rename" THEN new_file ELSE bytes

\* --------------------------------------------------------- LogFile::restart

\* fail_at of a restart whose header is written and whose set_len fails
FailSetLen == 8

\* A restart that rewrites the header and keeps the entries in the file.
restart_file_keeping_entries(log, bytes, starting_index, fail_at) ==
    [content |-> write_at(bytes, 0, to_le_bytes(starting_index, 8)),
     log     |-> [log EXCEPT !.first_index = starting_index, !.len = 0, !.pos = 8],
     ret     |-> "Ok"]

\* restart(starting_index).  fail_at = NoFail: every step succeeds; 0..7: the
\* write_all of the header fails after that many bytes; FailSetLen: set_len fails.
restart_file(log, bytes, starting_index, fail_at) ==
    LET header  == to_le_bytes(starting_index, 8)
        ok      == fail_at = NoFail
        written == IF ok \/ fail_at = FailSetLen THEN header ELSE SubSeq(header, 1, fail_at)
        after   == write_at(bytes, 0, written)
    IN  [content |-> IF ok THEN set_len(after, 8) ELSE after,
         log     |-> IF ok
                     THEN [log EXCEPT !.first_index = starting_index, !.len = 0, !.pos = 8]
                     ELSE [log EXCEPT !.pos = Len(written)],
         ret     |-> IF ok THEN "Ok" ELSE "IoError"]

\* ------------------------------------------------------------------- state

VARIABLES
    files,      \* the bytes of every file (inode)
    path,       \* the file the log's path names
    lockOwner,  \* the handle holding the exclusive advisory lock of each file
    logs,       \* the LogFile of each handle: live, ino, first_index, len, pos
    acked,      \* the payloads acknowledged by write and not compacted or restarted away
    failures,   \* the system calls that failed so far
    crashes,    \* the processes that died in the middle of a call so far
    last        \* the last operation: what was called, with what, and what it returned
                \* (reopen: an open that follows a close, or the iteration right after
                \* it; cut: the bytes the set_len of open or restart took off the file;
                \* cursor: the index of the LogEntry the call returned, which the
                \* caller holds until it calls something else; upto, from, to, item:
                \* the last_index and the range of the LogIterator the caller holds,
                \* and what its last next() returned; at: the position of the file
                \* when write was called)

vars == <<files, path, lockOwner, logs, acked, failures, crashes, last>>

NoOp ==
    [op |-> "none", h |-> NoHandle, ret |-> "Ok", entry |-> <<>>, index |-> 0,
     fail_at |-> NoFail, trim_ok |-> TRUE, step |-> "none", items |-> <<>>,
     reopen |-> FALSE, cut |-> 0,
     cursor |-> NoNext, upto |-> 0, from |-> Unbounded, to |-> Unbounded, item |-> "None",
     at |-> 0]

Init ==
    /\ files = [i \in Inodes |-> <<>>]
    /\ path = 1
    /\ lockOwner = [i \in Inodes |-> NoHandle]
    /\ logs = [h \in Handles |-> NoLog]
    /\ acked = <<>>
    /\ failures = 0
    /\ crashes = 0
    /\ last = NoOp

\* ------------------------------------------------------------- file system

\* A file that neither the log's path nor a live handle refers to is gone.
Sweep(fs, p, ls) ==
    [i \in Inodes |->
        IF i = p \/ \E g \in Handles : ls[g].live /\ ls[g].ino = i THEN fs[i] ELSE <<>>]

\* Closing a file releases the lock its handle held (flock).
Unlock(locks, h) ==
    [i \in Inodes |-> IF locks[i] = h THEN NoHandle ELSE locks[i]]

\* The number of the temporary file handle h creates and moves into: the lowest
\* one no other handle refers to once h has renamed it over the log's path and
\* closed its old file.
NewInode(h) ==
    CHOOSE i \in Inodes :
        /\ ~\E g \in Handles \ {h} : logs[g].live /\ logs[g].ino = i
        /\ \A j \in Inodes :
               (~\E g \in Handles \ {h} : logs[g].live /\ logs[g].ino = j) => i <= j

\* ----------------------------------------------------------------- actions

FileOf(h) == files[logs[h].ino]

\* The handle is dropped (or its process dies): its file is closed.
Dropped(h) ==
    /\ lockOwner' = Unlock(lockOwner, h)
    /\ logs' = [logs EXCEPT ![h] = NoLog]
    /\ files' = Sweep(files, path, logs')

\* LogFile::open(path).  AdvisoryFileLock::new opens the file at the path
\* (creating it when absent: an absent file is an empty one here); lock() fails
\* with AlreadyLocked when another handle holds the file's exclusive lock.  A
\* panic in open unwinds: the file is closed, no LogFile is returned.
Open(h) ==
    /\ ~logs[h].live
    /\ IF lockOwner[path] # NoHandle
       THEN /\ last' = [NoOp EXCEPT !.op = "open", !.h = h, !.ret = "AlreadyLocked"]
            /\ UNCHANGED <<files, path, lockOwner, logs, acked, failures, crashes>>
       ELSE \E overflow_checks \in IF open_file(files[path], TRUE).ret = "Panic"
                                   THEN BOOLEAN ELSE {TRUE} :
            LET o == open_file(files[path], overflow_checks) IN
            IF o.ret = "Panic"
            THEN /\ last' = [NoOp EXCEPT !.op = "open", !.h = h, !.ret = "Panic"]
                 /\ UNCHANGED <<files, path, lockOwner, logs, acked, failures, crashes>>
            ELSE
            /\ files' = [files EXCEPT ![path] = o.content]
            /\ lockOwner' = [lockOwner EXCEPT ![path] = h]
            /\ logs' = [logs EXCEPT ![h] =
                           [live |-> TRUE, ino |-> path, first_index |-> o.first_index,
                            len |-> o.len, pos |-> o.pos]]
            /\ last' = [NoOp EXCEPT !.op = "open", !.h = h,
                                    !.reopen = (last.op = "close"),
                                    !.cut = IF Len(files[path]) > Len(o.content)
                                            THEN Len(files[path]) - Len(o.content)
                                            ELSE 0]
            /\ UNCHANGED <<path, acked, failures, crashes>>

\* The LogFile goes out of scope.
Close(h) ==
    /\ logs[h].live
    /\ Dropped(h)
    /\ last' = [NoOp EXCEPT !.op = "close", !.h = h]
    /\ UNCHANGED <<path, acked, failures, crashes>>

\* write(entry), every step succeeding.
Write(h, entry) ==
    /\ logs[h].live
    /\ logs[h].len < MaxLen
    /\ LET w == write_file(logs[h], FileOf(h), entry, NoFail, TRUE) IN
       /\ files' = [files EXCEPT ![logs[h].ino] = w.content]
       /\ logs' = [logs EXCEPT ![h] = w.log]
       /\ acked' = Append(acked, entry)
       /\ last' = [NoOp EXCEPT !.op = "write", !.h = h, !.ret = w.ret, !.entry = entry,
                               !.at = logs[h].pos]
    /\ UNCHANGED <<path, lockOwner, failures, crashes>>

\* write(entry) with an I/O error after fail_at bytes of the entry were written.
\* A write_all fails before all of its bytes are written, so fail_at is less
\* than the size of the entry; File::flush cannot fail.
WriteFail(h, entry, fail_at, trim_ok) ==
    /\ logs[h].live
    /\ logs[h].len < MaxLen
    /\ fail_at \in 0 .. (Len(entry_bytes(entry)) - 1)
    /\ failures < MaxFailures
    /\ LET w == write_file(logs[h], FileOf(h), entry, fail_at, trim_ok) IN
       /\ files' = [files EXCEPT ![logs[h].ino] = w.content]
       /\ logs' = [logs EXCEPT ![h] = w.log]
       /\ last' = [NoOp EXCEPT !.op = "write", !.h = h, !.ret = w.ret, !.entry = entry,
                               !.fail_at = fail_at, !.trim_ok = trim_ok]
    /\ failures' = failures + 1
    /\ UNCHANGED <<path, lockOwner, acked, crashes>>

\* The process dies in write(entry) when written bytes of the entry have
\* reached the file (all of them: it dies before write returns).
CrashWrite(h, entry, written) ==
    /\ logs[h].live
    /\ logs[h].len < MaxLen
    /\ written \in 0 .. Len(entry_bytes(entry))
    /\ crashes < MaxCrashes
    /\ LET w == write_file(logs[h], FileOf(h), entry, written, FALSE) IN
       /\ lockOwner' = Unlock(lockOwner, h)
       /\ logs' = [logs EXCEPT ![h] = NoLog]
       /\ files' = Sweep([files EXCEPT ![logs[h].ino] = w.content], path, logs')
    /\ acked' = IF written = Len(entry_bytes(entry)) THEN Append(acked, entry) ELSE acked
    /\ last' = [NoOp EXCEPT !.op = "crash_write", !.h = h, !.ret = "Crash",
                            !.entry = entry, !.fail_at = written]
    /\ crashes' = crashes + 1
    /\ UNCHANGED <<path, failures>>

\* flush(): File::flush does nothing and returns Ok.
Flush(h) ==
    /\ logs[h].live
    /\ last' = [NoOp EXCEPT !.op = "flush", !.h = h]
    /\ UNCHANGED <<files, path, lockOwner, logs, acked, failures, crashes>>

\* iter(..) and the iteration to its end.  An iteration that hangs never
\* returns: the process is killed, which drops the handle.
Iter(h) ==
    /\ logs[h].live
    /\ LET r == iter_all(logs[h], FileOf(h)) IN
       /\ IF r.end = "Hang"
          THEN Dropped(h)
          ELSE /\ logs' = [logs EXCEPT ![h].pos = r.pos]
               /\ UNCHANGED <<files, lockOwner>>
       /\ last' = [NoOp EXCEPT !.op = "iter", !.h = h, !.ret = r.end, !.items = r.items,
                               !.reopen = (last.op = "open" /\ last.ret = "Ok"
                                           /\ last.h = h /\ last.reopen)]
    /\ UNCHANGED <<path, acked, failures, crashes>>

\* compact(new_start_index).  On success the temporary file, which compact
\* opens with AdvisoryFileLock::new and never locks, replaces the file at the
\* log's path and becomes the handle's file; the old file is closed.  A panic
\* unwinds through the caller and drops the handle.
Compact(h, new_start_index) ==
    /\ logs[h].live
    /\ LET c == compact_file(logs[h], FileOf(h), new_start_index)
           new == NewInode(h)
       IN  IF c.ret = "Ok"
           THEN /\ path' = new
                /\ lockOwner' = [Unlock(lockOwner, h) EXCEPT ![new] = NoHandle]
                /\ logs' = [logs EXCEPT ![h] = [c.log EXCEPT !.ino = new]]
                /\ files' = Sweep([files EXCEPT ![new] = c.content], new, logs')
                /\ acked' = SubSeq(acked, new_start_index - logs[h].first_index + 1,
                                   Len(acked))
                /\ last' = [NoOp EXCEPT !.op = "compact", !.h = h, !.ret = "Ok",
                                        !.index = new_start_index]
           ELSE /\ IF c.ret = "Panic"
                   THEN Dropped(h)
                   ELSE /\ logs' = [logs EXCEPT ![h] = c.log]
                        /\ UNCHANGED <<files, lockOwner>>
                /\ last' = [NoOp EXCEPT !.op = "compact", !.h = h, !.ret = c.ret,
                                        !.index = new_start_index]
                /\ UNCHANGED <<path, acked>>
    /\ UNCHANGED <<failures, crashes>>

\* The process dies in compact(new_start_index) after one of its steps, with
\* copied bytes of the copy done.  The temporary file it leaves behind has a
\* random name nothing looks for again.
CrashCompact(h, new_start_index) ==
    /\ logs[h].live
    /\ crashes < MaxCrashes
    /\ crashes' = crashes + 1
    /\ UNCHANGED failures
    /\ LET c == compact_file(logs[h], FileOf(h), new_start_index)
           new == NewInode(h)
       IN
       /\ c.ret = "Ok"
       /\ \E i \in 1 .. Len(CompactSteps) :
          \E copied \in IF CompactSteps[i] = "copy" THEN 0 .. (Len(c.content) - 8) ELSE {0} :
           LET step == CompactSteps[i]
               at == compact_path_at(files[path], c.content, step, copied)
           IN
           /\ logs' = [logs EXCEPT ![h] = NoLog]
           /\ IF step = "rename"
              THEN /\ path' = new
                   /\ lockOwner' = [Unlock(lockOwner, h) EXCEPT ![new] = NoHandle]
                   /\ files' = Sweep([files EXCEPT ![new] = at], new, logs')
                   /\ acked' = SubSeq(acked, new_start_index - logs[h].first_index + 1,
                                      Len(acked))
              ELSE /\ path' = path
                   /\ lockOwner' = Unlock(lockOwner, h)
                   /\ files' = Sweep([files EXCEPT ![path] = at], path, logs')
                   /\ acked' = acked
           /\ last' = [NoOp EXCEPT !.op = "crash_compact", !.h = h, !.ret = "Crash",
                                   !.index = new_start_index, !.step = step]

\* restart(starting_index), every step succeeding.
Restart(h, starting_index) ==
    /\ logs[h].live
    /\ LET r == restart_file(logs[h], FileOf(h), starting_index, NoFail) IN
       /\ files' = [files EXCEPT ![logs[h].ino] = r.content]
       /\ logs' = [logs EXCEPT ![h] = r.log]
       /\ last' = [NoOp EXCEPT !.op = "restart", !.h = h, !.ret = r.ret,
                               !.index = starting_index,
                               !.cut = Len(FileOf(h)) - Len(r.content)]
    /\ acked' = <<>>
    /\ UNCHANGED <<path, lockOwner, failures, crashes>>

\* The process dies inside restart(starting_index): after the first `written`
\* bytes of the header (0..7), after the whole header and before set_len
\* (FailSetLen), or after set_len (NoFail).
CrashRestart(h, starting_index, written) ==
    /\ logs[h].live
    /\ written \in (0 .. 7) \cup {FailSetLen, NoFail}
    /\ crashes < MaxCrashes
    /\ LET r == restart_file(logs[h], FileOf(h), starting_index, written) IN
       /\ lockOwner' = Unlock(lockOwner, h)
       /\ logs' = [logs EXCEPT ![h] = NoLog]
       /\ files' = Sweep([files EXCEPT ![logs[h].ino] = r.content], path, logs')
    /\ acked' = IF written = NoFail THEN <<>> ELSE acked
    /\ last' = [NoOp EXCEPT !.op = "crash_restart", !.h = h, !.ret = "Crash",
                            !.index = starting_index, !.fail_at = written]
    /\ crashes' = crashes + 1
    /\ UNCHANGED <<path, failures>>

\* ---------------------------------------------- cursors and iterators

\* The calls that return a LogEntry
CursorOps == {"first_entry", "seek", "entry_seek", "read_to_next"}

\* The caller of handle h holds the LogEntry its last call returned.
HasCursor(h) ==
    /\ logs[h].live
    /\ last.h = h /\ last.op \in CursorOps /\ last.ret = "Ok" /\ last.cursor # NoNext

\* The caller of handle h holds the LogIterator of its last iter(range).
HasIterator(h) ==
    /\ logs[h].live
    /\ last.h = h
    /\ (last.op = "iter_range" /\ last.ret = "Ok") \/ last.op = "next"

\* first_entry()
FirstEntry(h) ==
    /\ logs[h].live
    /\ LET r == first_entry(logs[h]) IN
       /\ logs' = [logs EXCEPT ![h].pos = r.pos]
       /\ last' = [NoOp EXCEPT !.op = "first_entry", !.h = h, !.ret = r.ret,
                               !.cursor = r.index]
    /\ UNCHANGED <<files, path, lockOwner, acked, failures, crashes>>

\* LogFile::seek(to_index)
Seek(h, to_index) ==
    /\ logs[h].live
    /\ LET r == seek(logs[h], FileOf(h), to_index) IN
       /\ IF r.ret = "Panic"
          THEN Dropped(h)
          ELSE /\ logs' = [logs EXCEPT ![h].pos = r.pos]
               /\ UNCHANGED <<files, lockOwner>>
       /\ last' = [NoOp EXCEPT !.op = "seek", !.h = h, !.ret = r.ret,
                               !.index = to_index, !.cursor = r.index]
    /\ UNCHANGED <<path, acked, failures, crashes>>

\* LogEntry::seek(to_index) on the cursor the caller holds
EntrySeek(h, to_index) ==
    /\ HasCursor(h)
    /\ LET r == seek_entry(logs[h], FileOf(h), logs[h].pos, last.cursor, to_index) IN
       /\ IF r.ret = "Panic"
          THEN Dropped(h)
          ELSE /\ logs' = [logs EXCEPT ![h].pos = r.pos]
               /\ UNCHANGED <<files, lockOwner>>
       /\ last' = [NoOp EXCEPT !.op = "entry_seek", !.h = h, !.ret = r.ret,
                               !.index = to_index, !.cursor = r.index]
    /\ UNCHANGED <<path, acked, failures, crashes>>

\* LogEntry::read_to_next on the cursor the caller holds.  A read that hangs
\* never returns: the process is killed, which drops the handle.
ReadToNext(h) ==
    /\ HasCursor(h)
    /\ LET r == read_to_next(logs[h], FileOf(h), logs[h].pos, last.cursor) IN
       /\ IF r.ret = "Hang"
          THEN Dropped(h)
          ELSE /\ logs' = [logs EXCEPT ![h].pos = r.pos]
               /\ UNCHANGED <<files, lockOwner>>
       /\ last' = [NoOp EXCEPT !.op = "read_to_next", !.h = h, !.ret = r.ret,
                               !.index = last.cursor, !.cursor = r.next,
                               !.items = IF r.ret = "Ok" THEN <<r.content>> ELSE <<>>]
    /\ UNCHANGED <<path, acked, failures, crashes>>

\* iter(range), in a build with or without overflow checks (which differ for
\* an end bound of Excluded(0) alone)
IterRange(h, from, to) ==
    /\ logs[h].live
    /\ \E overflow_checks \in IF to = Excluded(0) THEN BOOLEAN ELSE {TRUE} :
        LET r == iter_range(logs[h], FileOf(h), from, to, overflow_checks) IN
        /\ IF r.ret = "Panic"
           THEN Dropped(h)
           ELSE /\ logs' = [logs EXCEPT ![h].pos = r.pos]
                /\ UNCHANGED <<files, lockOwner>>
        /\ last' = [NoOp EXCEPT !.op = "iter_range", !.h = h, !.ret = r.ret,
                                !.from = from, !.to = to,
                                !.cursor = r.next, !.upto = r.last_index]
    /\ UNCHANGED <<path, acked, failures, crashes>>

\* LogIterator::next on the iterator the caller holds; items gathers the
\* contents of its Ok items, ret keeps the error of its Err item.
IteratorNext(h) ==
    /\ HasIterator(h)
    /\ LET r == next_item(logs[h], FileOf(h), logs[h].pos, last.cursor, last.upto) IN
       /\ IF r.item = "Hang"
          THEN Dropped(h)
          ELSE /\ logs' = [logs EXCEPT ![h].pos = r.pos]
               /\ UNCHANGED <<files, lockOwner>>
       /\ last' = [last EXCEPT !.op = "next", !.item = r.item, !.cursor = r.next,
                               !.ret = IF r.item \in {"Ok", "None"} THEN @ ELSE r.item,
                               !.items = IF r.item = "Ok" THEN Append(@, r.content) ELSE @]
    /\ UNCHANGED <<path, acked, failures, crashes>>

\* ------------------------------------------------------------ corruption

\* The values a damaged byte takes.
DamagedBytes == {0, 6, 135}

\* The offset in the file of byte i of the payload of the j-th entry, in a file
\* that holds the records of entries es after its header.
payload_offset(es, j, i) ==
    HeaderSize + Len(entries_bytes(SubSeq(es, 1, j - 1))) + LengthSize + i

\* Something other than the program changes byte i (to value b) of the stored
\* payload of the j-th entry of the log at the path, a file that holds complete
\* records; lengths and checksums stay as they are.
Corrupt(j, i, b) ==
    /\ Len(files[path]) >= HeaderSize
    /\ files[path] = SubSeq(files[path], 1, HeaderSize) \o entries_bytes(acked)
    /\ j \in 1 .. Len(acked)
    /\ i \in 1 .. Len(acked[j])
    /\ b # acked[j][i]
    /\ files' = [files EXCEPT ![path][payload_offset(acked, j, i)] = b]
    /\ last' = [NoOp EXCEPT !.op = "corrupt", !.index = j]
    /\ UNCHANGED <<path, lockOwner, logs, acked, failures, crashes>>

\* The most bytes that follow a trailing length field.
MaxTail == 4

\* The length fields open is made to read: 2^64 - 5, 2^64 - 4, 2^64 - 3,
\* 2^64 - 1, 2^63 and 5.
LengthFields ==
    { <<b>> \o [i \in 1 .. 7 |-> 255] : b \in {251, 252, 253, 255} }
        \cup { <<0, 0, 0, 0, 0, 0, 0, 128>>, <<5, 0, 0, 0, 0, 0, 0, 0>> }

\* The file at the path, closed and holding complete records, is left with a
\* length field and n more bytes after its last record: what open reads as the
\* start of one more entry.
TrailingField(field, n) ==
    /\ lockOwner[path] = NoHandle
    /\ Len(files[path]) >= HeaderSize
    /\ files[path] = SubSeq(files[path], 1, HeaderSize) \o entries_bytes(acked)
    /\ files' = [files EXCEPT ![path] = @ \o field \o Zeros(n)]
    /\ last' = [NoOp EXCEPT !.op = "trailing_field", !.entry = field, !.cut = n]
    /\ UNCHANGED <<path, lockOwner, logs, acked, failures, crashes>>

\* --------------------------------------------------------- specifications

Indices == 0 .. MaxIndex

\* The bytes of the largest entry the callers write.
MaxEntrySize ==
    LengthSize + ChecksumSize
        + (CHOOSE n \in 0 .. 8 : \E p \in Payloads : Len(p) = n /\ \A q \in Payloads : Len(q) <= n)

\* What a caller can do with handle h when every system call succeeds, the
\* entries it writes being taken from entries.
CallsWith(h, entries) ==
    \/ Open(h)
    \/ Close(h)
    \/ \E entry \in entries : Write(h, entry)
    \/ Flush(h)
    \/ Iter(h)
    \/ \E k \in 0 .. (MaxIndex + MaxLen) : Compact(h, k)
    \/ \E m \in Indices : Restart(h, m)

Calls(h) == CallsWith(h, Payloads)

\* I/O failures and deaths of the process using handle h.
Faults(h) ==
    \/ \E entry \in Payloads, fail_at \in 0 .. MaxEntrySize, trim_ok \in BOOLEAN :
           WriteFail(h, entry, fail_at, trim_ok)
    \/ \E entry \in Payloads, written \in 0 .. MaxEntrySize : CrashWrite(h, entry, written)
    \/ \E k \in 0 .. (MaxIndex + MaxLen) : CrashCompact(h, k)

\* One process uses the log, with failures.
Next == Calls(1) \/ Faults(1)

Spec == Init /\ [][Next]_vars

\* The bounds of the ranges the callers iterate.
RangeBounds ==
    {Unbounded} \cup { Included(x) : x \in 0 .. MaxLen } \cup { Excluded(x) : x \in 0 .. MaxLen }

\* What a caller can do with the cursors and iterators of handle h.
Reads(h) ==
    \/ FirstEntry(h)
    \/ \E k \in 0 .. (MaxIndex + MaxLen) : Seek(h, k)
    \/ \E k \in 0 .. (MaxIndex + MaxLen) : EntrySeek(h, k)
    \/ ReadToNext(h)
    \/ \E from \in RangeBounds, to \in RangeBounds : IterRange(h, from, to)
    \/ IteratorNext(h)

\* write(entry) failing with an I/O error on handle h, its set_len succeeding.
WriteFails(h, entries) ==
    \E entry \in entries, fail_at \in 0 .. MaxEntrySize : WriteFail(h, entry, fail_at, TRUE)

\* One process uses the log and reads it entry by entry; writes can fail.
NextRead == CallsWith(1, {<<7>>}) \/ Reads(1) \/ WriteFails(1, {<<7>>})

SpecRead == Init /\ [][NextRead]_vars

\* One process writes the log and reads it, entry by entry and with iterators
\* (over the whole log, or from or up to index 1); a byte of a stored payload
\* can get damaged.
NextCorrupt ==
    \/ Open(1)
    \/ Close(1)
    \/ Write(1, <<7>>)
    \/ \E m \in Indices : Restart(1, m)
    \/ FirstEntry(1)
    \/ \E k \in 0 .. (MaxIndex + MaxLen) : Seek(1, k)
    \/ \E k \in 0 .. (MaxIndex + MaxLen) : EntrySeek(1, k)
    \/ ReadToNext(1)
    \/ \E from \in {Unbounded, Included(1)}, to \in {Unbounded, Excluded(1)} :
           IterRange(1, from, to)
    \/ IteratorNext(1)
    \/ \E j \in 1 .. MaxLen, b \in DamagedBytes : Corrupt(j, 1, b)

SpecCorrupt == Init /\ [][NextCorrupt]_vars

\* While one process uses the log, another one opens the same path (and closes
\* what it got); every system call succeeds.
NextShared == CallsWith(1, {<<7>>}) \/ Open(2) \/ Close(2)

SpecShared == Init /\ [][NextShared]_vars

\* The calls on one handle, with a process that can die inside restart.
NextRestart ==
    \/ CallsWith(1, {<<7>>})
    \/ \E m \in Indices, written \in (0 .. 7) \cup {FailSetLen, NoFail} :
           CrashRestart(1, m, written)

SpecRestart == Init /\ [][NextRestart]_vars

\* A log that is written, closed, left with a trailing length field and opened.
NextScan ==
    \/ Open(1)
    \/ Close(1)
    \/ Write(1, <<7>>)
    \/ Iter(1)
    \/ \E m \in Indices : Restart(1, m)
    \/ \E field \in LengthFields, n \in 1 .. MaxTail : TrailingField(field, n)

SpecScan == Init /\ [][NextScan]_vars

\* --------------------------------------------- what the claims are stated with

\* The sequences of at most n payloads.
RECURSIVE PayloadSeqs(_)
PayloadSeqs(n) ==
    IF n = 0 THEN { <<>> }
    ELSE LET shorter == PayloadSeqs(n - 1) IN
         shorter \cup { Append(es, p) : es \in shorter, p \in Payloads }

\* What follows the header in a file of n complete entries and the first bytes
\* (not all) of one more: the entries (whole) and those bytes (tail).
TornLogs ==
    UNION { { [n |-> Len(es), whole |-> entries_bytes(es),
               tail |-> SubSeq(entry_bytes(p), 1, t)] :
                  t \in 0 .. (Len(entry_bytes(p)) - 1) } :
            es \in PayloadSeqs(MaxLen), p \in Payloads }

\* What a process finds that opens a file holding bytes and iterates iter(..).
Reopened(bytes) ==
    LET o   == open_file(bytes, FALSE)
        log == [live |-> TRUE, ino |-> NoInode, first_index |-> o.first_index,
                len |-> o.len, pos |-> o.pos]
        r   == iter_all(log, o.content)
    IN  [first_index |-> o.first_index, len |-> o.len, items |-> r.items, end |-> r.end]

\* What iter(..) on live handle h yields in the current state.
Listing(h) == iter_all(logs[h], FileOf(h))

\* ------------------------------------------------------------------ claims

\* C1. Round trip: when the handle is closed, the log reopened and iter(..)
\* run to its end, the items are exactly the payloads write acknowledged (after
\* the entries the log retained), in order, and then the iterator ends.
RoundTrip ==
    (last.op = "iter" /\ last.reopen) => (last.items = acked /\ last.ret = "None")

\* C2. Crash atomicity of append: when the process dies in write(payload) on a
\* log holding n entries, the next open finds those n entries when the checksum
\* was not completely written, and those n entries followed by payload when it
\* was; nothing else.
CrashAtomicAppend ==
    [][ last'.op = "crash_write" =>
            LET h        == last'.h
                n        == logs[h].len
                complete == last'.fail_at = Len(entry_bytes(last'.entry))
                found    == Reopened(files'[path'])
            IN  /\ found.end = "None"
                /\ ~complete => (found.len = n /\ found.items = acked)
                /\ complete => (found.len = n + 1
                                /\ found.items = Append(acked, last'.entry)) ]_vars

\* C3. Crash truncation on open: when the file at the path is a header, n
\* complete entries and fewer bytes than it takes of one more entry (down to
\* part of its length field), open succeeds, reports len() = n and leaves the
\* file cut at the end of the nth entry.
CrashTruncationOnOpen ==
    [][ (last'.op = "open" /\ last'.ret = "Ok" /\ Len(files[path]) >= HeaderSize) =>
            \A torn \in TornLogs :
                LET header == SubSeq(files[path], 1, HeaderSize) IN
                files[path] = header \o torn.whole \o torn.tail
                    => /\ logs'[last'.h].live
                       /\ logs'[last'.h].len = torn.n
                       /\ files'[path'] = header \o torn.whole ]_vars

\* C3 happens: no system call ever failed, a process died in write when the
\* length and some more bytes of a second entry were in the file, and open has
\* cut them off and counted one entry.
TornTailCutByOpen ==
    /\ last.op = "open" /\ last.ret = "Ok"
    /\ failures = 0
    /\ last.cut > LengthSize
    /\ logs[last.h].len = 1 /\ Len(acked) = 1
    /\ FileOf(last.h) = to_le_bytes(logs[last.h].first_index, HeaderSize) \o entries_bytes(acked)

\* C4. Compaction preserves the retained suffix: when compact(k) succeeds with
\* first_index <= k <= last_index, first_index() is k, len() has gone down by
\* k - old first_index, iter(..) yields the payloads the log held at k and
\* after and ends, and a process that reopens the file finds the same.
CompactionPreservesSuffix ==
    [][ (last'.op = "compact" /\ last'.ret = "Ok"
         /\ logs[last'.h].len > 0
         /\ logs[last'.h].first_index <= last'.index
         /\ last'.index <= logs[last'.h].first_index + logs[last'.h].len - 1) =>
            LET h      == last'.h
                k      == last'.index
                old    == logs[h]
                kept   == SubSeq(acked, k - old.first_index + 1, Len(acked))
                now    == iter_all(logs'[h], files'[logs'[h].ino])
                found  == Reopened(files'[path'])
            IN  /\ logs'[h].first_index = k
                /\ logs'[h].len = old.len - (k - old.first_index)
                /\ now.items = kept /\ now.end = "None"
                /\ found.first_index = k
                /\ found.items = kept /\ found.end = "None" ]_vars

\* C5. Compaction is atomic for the log's path: after compact(k), and after a
\* death of the process at any step of it, the file at the log's path is the
\* whole file from before or the whole compacted file (the header k and every
\* byte from entry k on); after a death nothing holds the lock of that file, so
\* that a process that reopens gets one of those two logs.
CompactionAtomicAtPath ==
    [][ last'.op \in {"compact", "crash_compact"} =>
            LET h         == last'.h
                k         == last'.index
                before    == files[path]
                from      == seek(logs[h], before, k).pos
                compacted == to_le_bytes(k, HeaderSize) \o SubSeq(before, from + 1, Len(before))
                renamed   == last'.step = "rename" \/ (last'.op = "compact" /\ last'.ret = "Ok")
            IN  /\ files'[path'] = IF renamed THEN compacted ELSE before
                /\ last'.op = "crash_compact" => lockOwner'[path'] = NoHandle ]_vars

\* C5 happens: a process died while compact copied the entries to the
\* temporary file, compacting at an index above the first one, and the log's
\* path still holds the file with the lower first index and its entries.
DiedWhileCopying ==
    /\ last.op = "crash_compact" /\ last.step = "copy"
    /\ Len(files[path]) > HeaderSize
    /\ last.index > read_u64(files[path], 0)

\* C6. Mutual exclusion between handles: a live handle holds the exclusive lock
\* of the file at the log's path, whatever was called on it since its open, so
\* that no second open of the path succeeds and no two handles are live at once.
MutualExclusion ==
    /\ \A h \in Handles : logs[h].live => lockOwner[path] = h
    /\ \A a, b \in Handles : (logs[a].live /\ logs[b].live) => a = b

\* C7. Restart clears state: after restart(m) returns Ok, len() is 0,
\* first_index() is m and iter(..) yields nothing; a process that closes and
\* reopens the file finds first_index() = m and len() = 0 too.
RestartClears ==
    (last.op = "restart" /\ last.ret = "Ok") =>
        LET h == last.h IN
        /\ logs[h].len = 0
        /\ logs[h].first_index = last.index
        /\ Listing(h).items = <<>> /\ Listing(h).end = "None"
        /\ Reopened(files[path]) =
               [first_index |-> last.index, len |-> 0, items |-> <<>>, end |-> "None"]

\* C7 happens: restart(1) has returned Ok on a log whose file held more than
\* the header.
RestartedWithEntries ==
    /\ last.op = "restart" /\ last.ret = "Ok"
    /\ last.index = 1
    /\ last.cut > 0

\* C8. Repair after a failed append: when write fails with an I/O error
\* after any number of bytes of the entry and its set_len succeeds, the file is
\* as long as it was before the write began.
FailedAppendRepaired ==
    [][ (last'.op = "write" /\ last'.ret = "IoError" /\ last'.trim_ok) =>
            Len(files'[logs'[last'.h].ino]) = Len(files[logs[last'.h].ino]) ]_vars

\* C9. File layout invariant: between operations the file of a live handle is
\* the 8-byte header of its first_index followed by exactly len complete entry
\* records, those of the payloads write acknowledged; a process reopening the
\* file finds the same first_index and len and reads every one of them.
FileLayout ==
    \A h \in Handles :
        logs[h].live =>
            /\ logs[h].len = Len(acked)
            /\ FileOf(h) = to_le_bytes(logs[h].first_index, HeaderSize) \o entries_bytes(acked)
            /\ Reopened(FileOf(h)) =
                   [first_index |-> logs[h].first_index, len |-> logs[h].len,
                    items |-> acked, end |-> "None"]

\* C10. len changes only on a fully successful append: write adds exactly 1 to
\* len and returns Ok when no step of it failed; when a step failed it returns
\* an I/O error and leaves len and first_index as they were.
LenCountsSuccessfulAppends ==
    [][ last'.op = "write" =>
            LET h   == last'.h
                all == last'.fail_at = NoFail
            IN  /\ logs'[h].len = logs[h].len + (IF all THEN 1 ELSE 0)
                /\ logs'[h].first_index = logs[h].first_index
                /\ last'.ret = IF all THEN "Ok" ELSE "IoError" ]_vars

\* C10 happens: after one entry was written, a write has failed in its second
\* phase, some bytes of the checksum written.
AppendFailedInChecksum ==
    /\ last.op = "write" /\ last.ret = "IoError"
    /\ last.fail_at > LengthSize + Len(last.entry)
    /\ logs[last.h].len = 1

\* C11. Index continuity: after successful writes to an empty log whose
\* first_index is k, first_index() is still k, len() is the number n of payloads
\* written, last_index() is k + n - 1, and the entry read at index k + i - 1
\* is the i-th payload written.
IndexContinuity ==
    [][ /\ (last'.op = "write" /\ last'.ret = "Ok") =>
               LET h == last'.h IN
               /\ logs'[h].first_index = logs[h].first_index
               /\ logs'[h].len = Len(acked')
               /\ last_index(logs'[h]) = logs[h].first_index + Len(acked') - 1
        /\ (last'.op = "read_to_next" /\ logs[last'.h].len > 0
            /\ last'.index <= last_index(logs[last'.h])) =>
               LET i == last'.index - logs[last'.h].first_index + 1 IN
               /\ last'.ret = "Ok"
               /\ i <= Len(acked)
               /\ last'.items = <<acked[i]>> ]_vars

\* C12. Forward-only seek: LogEntry::seek(to_index) on a cursor at index c
\* fails with OutOfBounds exactly when to_index < c or to_index > first_index +
\* len, and otherwise succeeds with a cursor whose index is to_index.
ForwardOnlySeek ==
    [][ last'.op = "entry_seek" =>
            LET log     == logs[last'.h]
                c       == last.cursor
                outside == last'.index < c \/ last'.index > log.first_index + log.len
            IN  IF outside
                THEN last'.ret = "OutOfBounds"
                ELSE last'.ret = "Ok" /\ last'.cursor = last'.index ]_vars

\* C13. Accepted range of compact: compact(k) fails with OutOfBounds exactly
\* when k is outside [first_index, first_index + len], whatever len and
\* first_index are; compact(first_index + len) succeeds and leaves an empty log
\* whose first_index is k.
CompactAcceptedRange ==
    [][ last'.op = "compact" =>
            LET h       == last'.h
                k       == last'.index
                outside == k < logs[h].first_index \/ k > logs[h].first_index + logs[h].len
            IN  /\ (last'.ret = "OutOfBounds") <=> outside
                /\ k = logs[h].first_index + logs[h].len
                       => /\ last'.ret = "Ok"
                          /\ logs'[h].first_index = k
                          /\ logs'[h].len = 0 ]_vars

\* C14. End-bound resolution of iter: iter(range) fails with OutOfBounds
\* whenever the end of the range (x for Included(x), x - 1 for Excluded(x), x = 0
\* too) is not below last_index(); on an empty log only iter(..) succeeds, and
\* yields nothing.
IterEndBound ==
    [][ last'.op = "iter_range" =>
            LET log      == logs[last'.h]
                to       == last'.to
                populated == log.len > 0
                below    == /\ populated
                            /\ \/ to.kind = "Unbounded"
                               \/ to.kind = "Included" /\ to.x < last_index(log)
                               \/ to.kind = "Excluded" /\ to.x > 0 /\ to.x - 1 < last_index(log)
            IN  /\ (to.kind # "Unbounded" /\ ~below) => last'.ret = "OutOfBounds"
                /\ (~populated /\ last'.ret = "Ok")
                       => /\ last'.from = Unbounded /\ to = Unbounded
                          /\ last'.cursor = NoNext ]_vars

\* bytes is a header and the records of entries es, but for one changed byte,
\* which lies inside the payload of the j-th entry.
StoredWithDamage(bytes, es, j) ==
    LET whole == SubSeq(bytes, 1, HeaderSize) \o entries_bytes(es)
        inside == payload_offset(es, j, 1) .. payload_offset(es, j, Len(es[j]))
        changed == { n \in 1 .. Len(whole) : bytes[n] # whole[n] }
    IN  /\ Len(bytes) = Len(whole)
        /\ Cardinality(changed) = 1
        /\ changed \subseteq inside

\* C15. Checksum detection: when one byte inside the stored payload of an
\* entry has changed, read_to_next on that entry fails with BadChecksum and
\* returns no next cursor, every entry before it still reads back as written,
\* and open still counts the entry.
ChecksumDetection ==
    [][ \A j \in 1 .. Len(acked) :
            /\ (last'.op = "read_to_next"
                /\ logs[last'.h].len = Len(acked)
                /\ StoredWithDamage(files[logs[last'.h].ino], acked, j)) =>
                   LET i == last'.index - logs[last'.h].first_index + 1 IN
                   /\ i = j => (last'.ret = "BadChecksum" /\ last'.cursor = NoNext)
                   /\ i < j => (last'.ret = "Ok" /\ last'.items = <<acked[i]>>)
            /\ (last'.op = "open" /\ last'.ret = "Ok"
                /\ Len(files[path]) >= HeaderSize
                /\ StoredWithDamage(files[path], acked, j)) =>
                   logs'[last'.h].len = Len(acked) ]_vars

\* C15 happens: a byte of the payload of the second entry has changed, the
\* read of the first entry returned it, and the read of the second one fails
\* with BadChecksum.
SecondEntryDamaged ==
    /\ last.op = "read_to_next" /\ last.ret = "BadChecksum"
    /\ logs[last.h].live /\ logs[last.h].len = 2
    /\ last.index = logs[last.h].first_index + 1
    /\ StoredWithDamage(FileOf(last.h), acked, 2)

\* C16. Iteration stops at the first error: after a next() of a LogIterator
\* returned an Err item, and after one returned None, every later next() returns
\* None; iter(range) and next() leave first_index, len and the bytes of the file
\* as they were.
IterationStopsAtError ==
    [][ /\ (last.op = "next" /\ last'.op = "next" /\ last.item # "Ok")
               => last'.item = "None"
        /\ (last'.op \in {"iter_range", "next"} /\ logs'[last'.h].live)
               => /\ logs'[last'.h].first_index = logs[last'.h].first_index
                  /\ logs'[last'.h].len = logs[last'.h].len
                  /\ files' = files ]_vars

\* C16 happens: an iterator returned the first entry, then BadChecksum for the
\* second, and its next() after that returned None.
PulledAfterBadChecksum ==
    /\ last.op = "next" /\ last.ret = "BadChecksum" /\ last.item = "None"
    /\ Len(last.items) = 1
    /\ logs[last.h].live

\* C17. Cursor position invariant: while the caller holds a LogEntry with an
\* index i in [first_index, first_index + len], the read position of the file
\* is where the length field of entry i starts: 8 plus the sizes of the
\* entries first_index .. i - 1.
CursorPosition ==
    \A h \in Handles :
        (HasCursor(h) /\ logs[h].first_index <= last.cursor
         /\ last.cursor <= logs[h].first_index + logs[h].len) =>
            LET before == last.cursor - logs[h].first_index IN
            /\ before <= Len(acked)
            /\ logs[h].pos = HeaderSize + Len(entries_bytes(SubSeq(acked, 1, before)))

\* The index an iterator of range from .. starts at.
ResolvedStart(log, from) ==
    IF from.kind = "Unbounded" THEN log.first_index
    ELSE IF from.kind = "Included" THEN from.x ELSE from.x + 1

\* C18. Iterator output is the requested window: the next() calls on the
\* iterator of an iter(range) that succeeded on a log with entries return the
\* payloads of the entries s .. e in order, one entry a call (none when
\* s > e), and None after that; s is the start of the range and e its
\* resolved inclusive end.
IteratorWindow ==
    [][ (last'.op = "next" /\ logs[last'.h].len > 0) =>
            LET log    == logs[last'.h]
                s      == ResolvedStart(log, last'.from)
                e      == last'.upto
                window == IF s > e THEN <<>>
                          ELSE SubSeq(acked, s - log.first_index + 1, e - log.first_index + 1)
                got    == last'.items
            IN  /\ e - log.first_index + 1 <= Len(acked)
                /\ last'.item \in {"Ok", "None"}
                /\ Len(got) <= Len(window)
                /\ got = SubSeq(window, 1, Len(got))
                /\ last'.item = "Ok" => Len(got) = Len(last.items) + 1
                /\ last'.item = "None" => got = window /\ got = last.items ]_vars

\* C19. Append is independent of the read position: a write that returns Ok,
\* wherever a cursor, a seek or an iterator left the position of the file, puts
\* the record after the last byte of the file, gives it the index first_index +
\* old len, and leaves first_index and every byte the file held as they were.
AppendAtEndOfFile ==
    [][ (last'.op = "write" /\ last'.ret = "Ok") =>
            LET h == last'.h IN
            /\ files'[logs'[h].ino] = files[logs[h].ino] \o entry_bytes(last'.entry)
            /\ last_index(logs'[h]) = logs[h].first_index + logs[h].len
            /\ logs'[h].first_index = logs[h].first_index ]_vars

\* C19 happens: write has returned Ok on a log with an entry in it, called
\* when a cursor had left the position of the file at the start of that entry.
AppendedAfterCursor ==
    /\ last.op = "write" /\ last.ret = "Ok"
    /\ last.at = HeaderSize
    /\ logs[last.h].len = 2
    /\ Len(FileOf(last.h)) > HeaderSize + Len(entry_bytes(last.entry))

\* C20. Crash atomicity of restart: when the process dies at any step of
\* restart(m) on a log holding entries, the next open finds either the log as
\* it was before the call (old first_index, every old entry) or an empty log
\* with first_index m, never the old entries numbered from m.
RestartCrashAtomic ==
    [][ (last'.op = "crash_restart" /\ logs[last'.h].len > 0) =>
            LET old == Reopened(files[path])
                new == Reopened(files'[path'])
            IN  \/ /\ new.first_index = old.first_index
                   /\ new.len = old.len
                   /\ new.items = old.items
                \/ /\ new.first_index = last'.index
                   /\ new.len = 0 ]_vars

\* C21. No wraparound in the recovery scan: when open reads a trailing length
\* field L whose required size L + 4 is more than the bytes that follow it
\* (every L of 2^64 - 4 or more among them), it returns a log that does not
\* count those bytes as an entry and has cut them from the file; it neither
\* aborts nor counts one more entry.
NoWraparoundInScan ==
    [][ ( /\ last.op = "trailing_field"
          /\ last'.op = "open"
          /\ \/ wraps_u64(last.entry)
             \/ from_le_bytes(last.entry) + ChecksumSize > last.cut ) =>
            /\ last'.ret = "Ok"
            /\ logs'[last'.h].len = Len(acked)
            /\ files'[path'] = SubSeq(files[path], 1, HeaderSize) \o entries_bytes(acked) ]_vars

====
